---- MODULE Spec2Model ----
(***************************************************************************)
(* Model of the LangGraph chatbot: the agent graph of                      *)
(* langgraph_database_backend.py (chat_node <-> tools, checkpointed in     *)
(* SQLite after every super-step), the thread_summaries table, and the     *)
(* Streamlit session script of streamlit_frontend_database.py.             *)
(*                                                                         *)
(* Text is a sequence of tokens.  A message content is a record            *)
(* [kind, text]: kind "str" is a Python str, kind "list" is a list of      *)
(* content blocks (the other content type of a langchain message).         *)
(***************************************************************************)
EXTENDS Integers, Sequences, FiniteSets, TLC

\* ------------------------------------------------------------------ bounds
NumSessions == 2      \* browser sessions sharing the database
MaxThreads == 2       \* thread ids that can be minted
MaxTurns == 2         \* send-message turns started in a behaviour
MaxSelects == 1       \* thread buttons clicked in a behaviour
MaxClock == 1         \* latest second the database clock can show
RecursionLimit == 4   \* super-steps of one graph run (langgraph's recursion_limit)
MaxHist == 2          \* messages of a history handed to generate_summary on its own

\* ------------------------------------------------------- program constants
ExcerptLen == 4       \* messages[:4]
MaxTitleWords == 8    \* [:8]

Sessions == 1..NumSessions
ThreadIds == 1..MaxThreads

Placeholder == <<"New", "Conversation">>

\* The one bound tool, and a name the model can ask for that is not bound.
BoundTools == {"tavily_search"}
ToolNames == {"tavily_search", "calculator"}

\* Word tokens match \w+[\w-]* ; the other tokens are punctuation or quotes.
WordTokens == {"what", "is", "chat", "topic", "new", "conversation",
               "What", "Is", "Chat", "Topic", "New", "Conversation",
               "result", "Error", "a", "b", "A", "B", "Result"}

UserTexts == {<<"what", "is", "?">>}
AiTexts == {<<"a", "b">>}
RawTitles == {<<"\"", "chat", "topic", ".">>, <<"?">>, <<"new", "conversation">>}
ErrorText == <<"Error">>
ResultText == <<"result">>

Str(t) == [kind |-> "str", text |-> t]
Blocks(t) == [kind |-> "list", text |-> t]

\* ----------------------------------------------------------------- helpers
Last(s) == s[Len(s)]

Take(s, n) == SubSeq(s, 1, IF Len(s) < n THEN Len(s) ELSE n)

IsPrefix(s, t) == Len(s) <= Len(t) /\ SubSeq(t, 1, Len(s)) = s

RECURSIVE Flatten(_)
Flatten(ss) == IF ss = <<>> THEN <<>> ELSE Head(ss) \o Flatten(Tail(ss))

\* str(content): a str is itself, a list is rendered with brackets.
PyStr(c) == IF c.kind = "str" THEN c.text ELSE <<"[">> \o c.text \o <<"]">>

\* ---------------------------------------------------------------- messages
HumanMessage(i, t) ==
    [type |-> "human", id |-> i, content |-> Str(t), tool_calls |-> <<>>, name |-> ""]
AIMessage(i, c, calls) ==
    [type |-> "ai", id |-> i, content |-> c, tool_calls |-> calls, name |-> ""]
ToolMessage(i, n, t) ==
    [type |-> "tool", id |-> i, content |-> Str(t), tool_calls |-> <<>>, name |-> n]

\* A state key without the reducer: the update replaces the list.
add_messages_replace(left, right) == right

\* add_messages: a message whose id is already in the list replaces that
\* message in place, any other message is appended.
RECURSIVE add_messages(_, _)
add_messages(left, right) ==
    IF right = <<>> THEN left
    ELSE LET m == Head(right)
             hit == {i \in 1..Len(left) : left[i].id = m.id}
             merged == IF hit = {} THEN Append(left, m)
                       ELSE [i \in 1..Len(left) |-> IF i \in hit THEN m ELSE left[i]]
         IN  add_messages(merged, Tail(right))

\* tools_condition: route to "tools" when the last message is an AI message
\* that requests tool calls, to END otherwise.
tools_condition(msgs) ==
    IF msgs # <<>> /\ Last(msgs).type = "ai" /\ Last(msgs).tool_calls # <<>>
    THEN "tools" ELSE "END"

\* ---------------------------------------------------------- title pipeline
IsWord(tok) == tok \in WordTokens
IsQuote(tok) == tok \in {"\"", "'"}
IsTerminator(tok) == tok \in {".", "!", "?"}

\* re.findall(r"\w+[\w-]*", s): the word tokens of s, in order.
FindWords(t) == SelectSeq(t, IsWord)

TitleWord(w) ==
    CASE w = "what" -> "What" [] w = "is" -> "Is" [] w = "chat" -> "Chat"
      [] w = "topic" -> "Topic" [] w = "new" -> "New"
      [] w = "conversation" -> "Conversation" [] w = "result" -> "Result"
      [] w = "a" -> "A" [] w = "b" -> "B" [] OTHER -> w

\* _to_title_case: collapse whitespace, strip, capitalise every word.
ToTitleCase(t) == [i \in 1..Len(t) |-> TitleWord(t[i])]

RECURSIVE StripTrailing(_)
StripTrailing(t) ==
    IF t # <<>> /\ IsTerminator(Last(t)) THEN StripTrailing(SubSeq(t, 1, Len(t) - 1))
    ELSE t

RECURSIVE FirstUser(_)
FirstUser(msgs) ==
    IF msgs = <<>> THEN <<>>
    ELSE IF Head(msgs).type = "human" THEN Head(msgs).content.text
    ELSE FirstUser(Tail(msgs))

\* _heuristic_title without the [:8] slice.
HeuristicTitleUnclamped(msgs) ==
    LET first_user == FirstUser(msgs)
        words == FindWords(first_user)
    IN  IF first_user = <<>> THEN Placeholder
        ELSE IF ToTitleCase(words) = <<>> THEN Placeholder ELSE ToTitleCase(words)

\* _heuristic_title: the first user message's first words in Title Case.
HeuristicTitle(msgs) ==
    LET first_user == FirstUser(msgs)
        words == Take(FindWords(first_user), MaxTitleWords)
    IN  IF first_user = <<>> THEN Placeholder
        ELSE IF ToTitleCase(words) = <<>> THEN Placeholder ELSE ToTitleCase(words)

\* msg.content.replace(...) of the excerpt loop: a list has no replace().
ExcerptRaises(msgs) ==
    \E i \in 1..Len(Take(msgs, ExcerptLen)) : msgs[i].content.kind # "str"

Sanitize(raw) ==
    LET noquotes == SelectSeq(raw, LAMBDA tok : ~IsQuote(tok))
        stripped == StripTrailing(noquotes)
    IN  ToTitleCase(Take(FindWords(stripped), MaxTitleWords))

\* What llm.invoke(prompt) can do: raise, or answer some text.
TitleOutcomes ==
    {[raises |-> TRUE, text |-> <<>>]} \cup {[raises |-> FALSE, text |-> r] : r \in RawTitles}

\* generate_summary(messages) when the title model does llmOut.  raised is
\* TRUE when an exception leaves generate_summary, called when llm.invoke ran.
GenerateSummary(msgs, llmOut) ==
    IF msgs = <<>> THEN [raised |-> FALSE, title |-> Placeholder, called |-> FALSE]
    ELSE IF ExcerptRaises(msgs) THEN [raised |-> TRUE, title |-> <<>>, called |-> FALSE]
    ELSE IF llmOut.raises
         THEN [raised |-> FALSE, title |-> HeuristicTitle(msgs), called |-> TRUE]
    ELSE IF Sanitize(llmOut.text) # <<>>
         THEN [raised |-> FALSE, title |-> Sanitize(llmOut.text), called |-> TRUE]
    ELSE [raised |-> FALSE, title |-> HeuristicTitle(msgs), called |-> TRUE]

\* ------------------------------------------------------------ display list
Entry(role, content, tools, logs) ==
    [role |-> role, content |-> content, tools |-> tools, tool_logs |-> logs]

\* The loop of the thread-select handler over the loaded messages.
RECURSIVE Rebuild(_, _, _)
Rebuild(msgs, temp, pending) ==
    IF msgs = <<>>
    THEN IF pending # <<>> /\ temp # <<>> /\ Last(temp).role = "assistant"
         THEN [temp EXCEPT ![Len(temp)].tools = @ \o pending]
         ELSE temp
    ELSE LET m == Head(msgs) IN
         IF m.type = "human"
         THEN Rebuild(Tail(msgs), Append(temp, Entry("user", PyStr(m.content), <<>>, <<>>)), pending)
         ELSE IF m.type = "tool"
         THEN Rebuild(Tail(msgs), temp, Append(pending, m.name))
         ELSE Rebuild(Tail(msgs),
                      Append(temp, Entry("assistant", PyStr(m.content), pending, <<>>)), <<>>)

\* ------------------------------------------------------------------- state
VARIABLES
    store,            \* checkpointer: thread id -> messages of the latest checkpoint
    table,            \* rows of the thread_summaries table
    now,              \* latest datetime('now') the database has shown
    nextId,           \* per thread: message ids handed out so far
    minted,           \* thread ids handed out so far by uuid4
    turns,            \* send-message turns started so far
    selects,          \* thread buttons clicked so far
    pc,               \* per session: where its script run stands
    thread_id,        \* st.session_state["thread_id"]
    message_history,  \* st.session_state["message_history"]
    chat_threads,     \* st.session_state["chat_threads"]
    thread_summaries, \* st.session_state["thread_summaries"], <<>> = no key
    final_text,       \* text chunks yielded by the running stream
    tools_used,       \* tool names seen by the running stream
    tool_logs,        \* log lines of the running stream
    step,             \* super-steps executed by the running graph
    run,              \* outcome of the session's latest graph run
    error,            \* exception that ended the session's latest script run
    titleRuns,        \* per thread: calls of generate_summary made so far
    lastSave,         \* per thread: the latest save_thread_summary call and their number
    turnBase,         \* history of the thread when the session's turn started
    turnMsgs,         \* messages the session's turn produced, in production order
    toolOutcomes,     \* how each tool invocation of the session's turn went
    gsIn,             \* argument of a stand-alone generate_summary call
    gsOut             \* what that call returned

vars == <<store, table, now, nextId, minted, turns, selects, pc, thread_id, message_history,
          chat_threads, thread_summaries, final_text, tools_used, tool_logs, step,
          run, error, titleRuns, lastSave, turnBase, turnMsgs, toolOutcomes, gsIn, gsOut>>

dbVars == <<store, table, now, nextId, titleRuns, lastSave>>
fnVars == <<gsIn, gsOut>>
streamVars == <<final_text, tools_used, tool_logs, step>>
ghostVars == <<turnBase, turnMsgs, toolOutcomes>>

\* --------------------------------------------------------------- backend API
\* The thread ids handed out so far instead of those with a checkpoint.
retrieve_all_threads_minted == {t \in ThreadIds : t <= minted}

\* retrieve_all_threads: the thread ids that have a checkpoint.
retrieve_all_threads == {t \in ThreadIds : store[t] # <<>>}

\* list(set): the elements in an order the caller cannot choose.
Orderings(S) ==
    {f \in [1..Cardinality(S) -> S] : \A i, j \in 1..Cardinality(S) : f[i] = f[j] => i = j}

HasRow(tbl, t) == \E r \in tbl : r.thread_id = t

\* An UPDATE without its WHERE clause: the save retitles every row.
save_thread_summary_all(tbl, t, title, ts) ==
    {[r EXCEPT !.title = title, !.updated_at = ts] : r \in tbl}
       \cup (IF HasRow(tbl, t) THEN {}
             ELSE {[thread_id |-> t, title |-> title, updated_at |-> ts]})

\* A plain INSERT into a table without the primary key.
save_thread_summary_insert(tbl, t, title, ts) ==
    tbl \cup {[thread_id |-> t, title |-> title, updated_at |-> ts]}

\* INSERT ... ON CONFLICT(thread_id) DO UPDATE SET title, updated_at
save_thread_summary(tbl, t, title, ts) ==
    IF HasRow(tbl, t)
    THEN {IF r.thread_id = t THEN [r EXCEPT !.title = title, !.updated_at = ts] ELSE r :
          r \in tbl}
    ELSE tbl \cup {[thread_id |-> t, title |-> title, updated_at |-> ts]}

\* get_thread_summary: the title of the row of t, <<>> (None) without a row.
get_thread_summary(tbl, t) ==
    IF HasRow(tbl, t) THEN (CHOOSE r \in tbl : r.thread_id = t).title ELSE <<>>

\* The startup loop without the lookup in the loaded titles.
load_thread_summaries_default(tbl, t) == Placeholder

\* load_thread_summaries().get(tid, "New Conversation")
load_thread_summaries(tbl, t) ==
    IF HasRow(tbl, t) THEN (CHOOSE r \in tbl : r.thread_id = t).title ELSE Placeholder

\* load_conversation: the messages of the latest checkpoint, [] without one.
load_conversation(t) == store[t]

\* ------------------------------------------------------------ session utils
InSeq(x, q) == \E i \in 1..Len(q) : q[i] = x

\* add_thread on the session lists.
AddThreadList(lst, t) == IF InSeq(t, lst) THEN lst ELSE Append(lst, t)
AddThreadTitles(ttl, t) == IF ttl[t] # <<>> THEN ttl ELSE [ttl EXCEPT ![t] = Placeholder]

Busy(s) == pc[s] \in {"chat_node", "tools", "end"}

\* One turn at a time per thread id (the serialisation the design assumes).
ThreadFree(s) == \A o \in Sessions \ {s} : Busy(o) => thread_id[o] # thread_id[s]

NoSave == [title |-> <<>>, updated_at |-> 0, saves |-> 0]
NoCall == [messages |-> <<>>, llm |-> [raises |-> TRUE, text |-> <<>>]]
NoResult == [state |-> "none", raised |-> FALSE, title |-> <<>>, called |-> FALSE]

\* The state after the backend module is imported: an empty database and no
\* session.
InitMain ==
    /\ store = [t \in ThreadIds |-> <<>>]
    /\ table = {}
    /\ now = 0
    /\ nextId = [t \in ThreadIds |-> 0]
    /\ minted = 0
    /\ turns = 0
    /\ selects = 0
    /\ pc = [s \in Sessions |-> "off"]
    /\ thread_id = [s \in Sessions |-> 0]
    /\ message_history = [s \in Sessions |-> <<>>]
    /\ chat_threads = [s \in Sessions |-> <<>>]
    /\ thread_summaries = [s \in Sessions |-> [t \in ThreadIds |-> <<>>]]
    /\ final_text = [s \in Sessions |-> <<>>]
    /\ tools_used = [s \in Sessions |-> <<>>]
    /\ tool_logs = [s \in Sessions |-> <<>>]
    /\ step = [s \in Sessions |-> 0]
    /\ run = [s \in Sessions |-> "none"]
    /\ error = [s \in Sessions |-> "none"]
    /\ titleRuns = [t \in ThreadIds |-> 0]
    /\ lastSave = [t \in ThreadIds |-> NoSave]
    /\ turnBase = [s \in Sessions |-> <<>>]
    /\ turnMsgs = [s \in Sessions |-> <<>>]
    /\ toolOutcomes = [s \in Sessions |-> <<>>]

Init ==
    /\ InitMain
    /\ gsIn = NoCall
    /\ gsOut = NoResult

\* First script run of a session: the Session Setup block.  Sessions are
\* numbered in the order they start.
StartSession(s) ==
    /\ pc[s] = "off"
    /\ \A o \in Sessions : o < s => pc[o] # "off"
    /\ minted < MaxThreads
    /\ \E known \in Orderings(retrieve_all_threads) :
         LET tid == minted + 1
             titles == [t \in ThreadIds |->
                          IF InSeq(t, known) THEN load_thread_summaries(table, t) ELSE <<>>]
         IN  /\ minted' = tid
             /\ thread_id' = [thread_id EXCEPT ![s] = tid]
             /\ chat_threads' = [chat_threads EXCEPT ![s] = AddThreadList(known, tid)]
             /\ thread_summaries' = [thread_summaries EXCEPT ![s] = AddThreadTitles(titles, tid)]
    /\ message_history' = [message_history EXCEPT ![s] = <<>>]
    /\ pc' = [pc EXCEPT ![s] = "idle"]
    /\ error' = [error EXCEPT ![s] = "none"]
    /\ UNCHANGED <<dbVars, turns, selects, streamVars, run, ghostVars>>
    /\ UNCHANGED fnVars

\* reset_chat without its last line: the visible history stays.
NewChatKeepsHistory(s) ==
    /\ pc[s] = "idle"
    /\ minted < MaxThreads
    /\ LET tid == minted + 1
       IN  /\ minted' = tid
           /\ thread_id' = [thread_id EXCEPT ![s] = tid]
           /\ chat_threads' = [chat_threads EXCEPT ![s] = AddThreadList(@, tid)]
           /\ thread_summaries' = [thread_summaries EXCEPT ![s] = AddThreadTitles(@, tid)]
    /\ error' = [error EXCEPT ![s] = "none"]
    /\ UNCHANGED <<dbVars, turns, selects, pc, streamVars, run, ghostVars, message_history>>
    /\ UNCHANGED fnVars

\* add_thread that also stores the placeholder title in the database.
NewChatSavesTitle(s) ==
    /\ pc[s] = "idle"
    /\ minted < MaxThreads
    /\ LET tid == minted + 1
       IN  /\ minted' = tid
           /\ thread_id' = [thread_id EXCEPT ![s] = tid]
           /\ chat_threads' = [chat_threads EXCEPT ![s] = AddThreadList(@, tid)]
           /\ thread_summaries' = [thread_summaries EXCEPT ![s] = AddThreadTitles(@, tid)]
           /\ table' = save_thread_summary(table, tid, Placeholder, now)
           /\ lastSave' = [lastSave EXCEPT ![tid] =
                 [title |-> Placeholder, updated_at |-> now, saves |-> @.saves + 1]]
    /\ message_history' = [message_history EXCEPT ![s] = <<>>]
    /\ error' = [error EXCEPT ![s] = "none"]
    /\ UNCHANGED <<store, now, nextId, titleRuns, turns, selects, pc, streamVars, run, ghostVars>>
    /\ UNCHANGED fnVars

\* The New Chat button: reset_chat.
NewChat(s) ==
    /\ pc[s] = "idle"
    /\ minted < MaxThreads
    /\ LET tid == minted + 1
       IN  /\ minted' = tid
           /\ thread_id' = [thread_id EXCEPT ![s] = tid]
           /\ chat_threads' = [chat_threads EXCEPT ![s] = AddThreadList(@, tid)]
           /\ thread_summaries' = [thread_summaries EXCEPT ![s] = AddThreadTitles(@, tid)]
    /\ message_history' = [message_history EXCEPT ![s] = <<>>]
    /\ error' = [error EXCEPT ![s] = "none"]
    /\ UNCHANGED <<dbVars, turns, selects, pc, streamVars, run, ghostVars>>
    /\ UNCHANGED fnVars

\* A sidebar thread button.
SelectThread(s, t) ==
    /\ pc[s] = "idle"
    /\ selects < MaxSelects
    /\ InSeq(t, chat_threads[s])
    /\ selects' = selects + 1
    /\ thread_id' = [thread_id EXCEPT ![s] = t]
    /\ message_history' = [message_history EXCEPT ![s] = Rebuild(load_conversation(t), <<>>, <<>>)]
    /\ error' = [error EXCEPT ![s] = "none"]
    /\ UNCHANGED <<dbVars, minted, turns, pc, chat_threads, thread_summaries, streamVars,
                   run, ghostVars>>
    /\ UNCHANGED fnVars

\* ------------------------------------------------------- send-message turn
\* What the model can answer in a Respond step.
\* The tool-call lists a response can carry: one call of the bound tool, or a
\* call of an unbound name followed by a call of the bound tool.
CallSeqs == {<<"tavily_search">>, <<"calculator", "tavily_search">>}
Responses ==
    {[content |-> c, tool_calls |-> <<>>] :
        c \in {Str(t) : t \in AiTexts} \cup {Blocks(t) : t \in AiTexts}}
    \cup {[content |-> Str(<<>>), tool_calls |-> calls] : calls \in CallSeqs}

\* A message id nobody has used: ids are opaque, <<thread, n>> keeps them apart.
FreshId(tid, k) == <<tid, nextId[tid] + k>>

\* A stream that yields every chunk a second time.
ChunksTwice(c) ==
    IF c.text = <<>> THEN <<PyStr(c), PyStr(c)>>
    ELSE [i \in 1..(2 * Len(c.text)) |->
             PyStr([kind |-> c.kind, text |-> <<c.text[(i + 1) \div 2]>>])]

\* The chunks the "messages" stream yields for one model response, each as
\* str(message_chunk.content): the response arrives token by token, and a
\* chunk of a list content is itself a list.
Chunks(c) ==
    IF c.text = <<>> THEN <<PyStr(c)>>
    ELSE [i \in 1..Len(c.text) |-> PyStr([kind |-> c.kind, text |-> <<c.text[i]>>])]

ResetLocals(s) ==
    /\ final_text' = [final_text EXCEPT ![s] = <<>>]
    /\ tools_used' = [tools_used EXCEPT ![s] = <<>>]
    /\ tool_logs' = [tool_logs EXCEPT ![s] = <<>>]
    /\ step' = [step EXCEPT ![s] = 0]

\* A limit that lets one super-step too many through.
OutOfStepsLate(n) == n > RecursionLimit

\* The loop's tick refuses to run once the run has used up its super-steps.
OutOfSteps(n) == n >= RecursionLimit

\* An edge from tools to END instead.
AfterToolsEnd == "end"

\* graph.add_edge("tools", "chat_node")
AfterTools == "chat_node"

\* st.chat_input delivers text: the user entry is appended, the graph run
\* starts and its START step checkpoints the history with the user message.
SendMessage(s, text) ==
    /\ pc[s] = "idle"
    /\ turns < MaxTurns
    /\ ThreadFree(s)
    /\ LET tid == thread_id[s]
           human == HumanMessage(FreshId(tid, 1), text)
       IN  /\ store' = [store EXCEPT ![tid] = add_messages(@, <<human>>)]
           /\ turnBase' = [turnBase EXCEPT ![s] = store[tid]]
           /\ turnMsgs' = [turnMsgs EXCEPT ![s] = <<human>>]
           /\ toolOutcomes' = [toolOutcomes EXCEPT ![s] = <<>>]
           /\ nextId' = [nextId EXCEPT ![tid] = @ + 1]
    /\ turns' = turns + 1
    /\ message_history' = [message_history EXCEPT ![s] = Append(@, Entry("user", text, <<>>, <<>>))]
    /\ ResetLocals(s)
    /\ pc' = [pc EXCEPT ![s] = "chat_node"]
    /\ run' = [run EXCEPT ![s] = "running"]
    /\ error' = [error EXCEPT ![s] = "none"]
    /\ UNCHANGED <<table, now, lastSave, minted, selects, thread_id, chat_threads, thread_summaries,
                   titleRuns>>
    /\ UNCHANGED fnVars

\* chat_node returns the model's response; the super-step is checkpointed and
\* tools_condition picks the next node.
ChatNodeOk(s) ==
    /\ pc[s] = "chat_node"
    /\ ~OutOfSteps(step[s])
    /\ \E r \in Responses :
         LET tid == thread_id[s]
             response == AIMessage(FreshId(tid, 1), r.content, r.tool_calls)
             merged == add_messages(store[tid], <<response>>)
         IN  /\ store' = [store EXCEPT ![tid] = merged]
             /\ turnMsgs' = [turnMsgs EXCEPT ![s] = Append(@, response)]
             /\ final_text' = [final_text EXCEPT ![s] = @ \o Chunks(r.content)]
             /\ pc' = [pc EXCEPT ![s] = IF tools_condition(merged) = "tools" THEN "tools" ELSE "end"]
             /\ nextId' = [nextId EXCEPT ![tid] = @ + 1]
    /\ step' = [step EXCEPT ![s] = @ + 1]
    /\ UNCHANGED <<table, now, lastSave, minted, turns, selects, thread_id, message_history, chat_threads,
                   thread_summaries, tools_used, tool_logs, run, error, titleRuns, turnBase,
                   toolOutcomes>>
    /\ UNCHANGED fnVars

\* A failing model call whose partial response is checkpointed all the same.
ChatNodeFailPartial(s) ==
    /\ pc[s] = "chat_node"
    /\ ~OutOfSteps(step[s])
    /\ LET tid == thread_id[s]
           partial == AIMessage(FreshId(tid, 1), Str(<<"a">>), <<>>)
       IN  /\ store' = [store EXCEPT ![tid] = add_messages(@, <<partial>>)]
           /\ nextId' = [nextId EXCEPT ![tid] = @ + 1]
    /\ ResetLocals(s)
    /\ pc' = [pc EXCEPT ![s] = "idle"]
    /\ run' = [run EXCEPT ![s] = "ModelCallError"]
    /\ error' = [error EXCEPT ![s] = "ModelCallError"]
    /\ UNCHANGED <<table, now, lastSave, titleRuns, minted, turns, selects, thread_id, message_history,
                   chat_threads, thread_summaries, ghostVars>>
    /\ UNCHANGED fnVars

\* llm_with_tools.invoke raises: the exception leaves chatbot.stream and the
\* script run; nothing of this super-step is checkpointed.
ChatNodeFail(s) ==
    /\ pc[s] = "chat_node"
    /\ ~OutOfSteps(step[s])
    /\ ResetLocals(s)
    /\ pc' = [pc EXCEPT ![s] = "idle"]
    /\ run' = [run EXCEPT ![s] = "ModelCallError"]
    /\ error' = [error EXCEPT ![s] = "ModelCallError"]
    /\ UNCHANGED <<dbVars, minted, turns, selects, thread_id, message_history, chat_threads,
                   thread_summaries, ghostVars>>
    /\ UNCHANGED fnVars

\* What ToolNode makes of one requested call: an unbound name and a failing
\* tool both give a ToolMessage whose text reports the error.
ToolOutput(name, outcome) ==
    IF name \notin BoundTools \/ outcome = "fail" THEN ErrorText ELSE ResultText

\* The log line the stream adds for the n-th ToolMessage of the turn.
LogLine(n) == IF n = 1 THEN "- Calling API" ELSE "- Still working"

\* How an invocation went: a name that is not bound is an invalid call.
Outcome(name, outcome) == IF name \notin BoundTools THEN "invalid" ELSE outcome

\* tool_node that does not name its messages after their calls.
tool_node_unnamed(tid, calls, outcome) ==
    [i \in 1..Len(calls) |->
        ToolMessage(FreshId(tid, i), "tool", ToolOutput(calls[i], outcome[i]))]

\* tool_node that returns its messages in completion order, last call first.
tool_node_reversed(tid, calls, outcome) ==
    [i \in 1..Len(calls) |->
        ToolMessage(FreshId(tid, i), calls[Len(calls) + 1 - i],
                    ToolOutput(calls[Len(calls) + 1 - i], outcome[Len(calls) + 1 - i]))]

\* tool_node that gives up at the first failing call.
tool_node_stops(tid, calls, outcome) ==
    LET bad == {i \in 1..Len(calls) : Outcome(calls[i], outcome[i]) # "ok"}
        n == IF bad = {} THEN Len(calls) ELSE (CHOOSE i \in bad : \A j \in bad : i <= j) - 1
    IN  [i \in 1..n |->
            ToolMessage(FreshId(tid, i), calls[i], ToolOutput(calls[i], outcome[i]))]

\* tool_node: one ToolMessage per call of the last AI message, in request
\* order, each carrying the name of its call.
tool_node(tid, calls, outcome) ==
    [i \in 1..Len(calls) |->
        ToolMessage(FreshId(tid, i), calls[i], ToolOutput(calls[i], outcome[i]))]

\* The tools super-step: tool_node runs and its messages are checkpointed.
ToolsStep(s) ==
    /\ pc[s] = "tools"
    /\ ~OutOfSteps(step[s])
    /\ LET tid == thread_id[s]
           calls == Last(store[tid]).tool_calls
           n == Len(calls)
       IN  \E outcome \in [1..n -> {"ok", "fail"}] :
             LET results == tool_node(tid, calls, outcome)
                 k == Len(results)
                 base == Len(tools_used[s])
             IN  /\ store' = [store EXCEPT ![tid] = add_messages(@, results)]
                 /\ turnMsgs' = [turnMsgs EXCEPT ![s] = @ \o results]
                 /\ toolOutcomes' = [toolOutcomes EXCEPT ![s] =
                                       @ \o [i \in 1..n |-> Outcome(calls[i], outcome[i])]]
                 /\ tools_used' = [tools_used EXCEPT ![s] = @ \o [i \in 1..k |-> results[i].name]]
                 /\ tool_logs' = [tool_logs EXCEPT ![s] = @ \o [i \in 1..k |-> LogLine(base + i)]]
                 /\ nextId' = [nextId EXCEPT ![tid] = @ + n]
    /\ step' = [step EXCEPT ![s] = @ + 1]
    /\ pc' = [pc EXCEPT ![s] = AfterTools]
    /\ UNCHANGED <<table, now, lastSave, minted, turns, selects, thread_id, message_history, chat_threads,
                   thread_summaries, final_text, run, error, titleRuns, turnBase>>
    /\ UNCHANGED fnVars

\* The graph run used up its super-steps: GraphRecursionError leaves
\* chatbot.stream and the script run.
RecursionLimitReached(s) ==
    /\ Busy(s)
    /\ OutOfSteps(step[s])
    /\ ResetLocals(s)
    /\ pc' = [pc EXCEPT ![s] = "idle"]
    /\ run' = [run EXCEPT ![s] = "GraphRecursionError"]
    /\ error' = [error EXCEPT ![s] = "GraphRecursionError"]
    /\ UNCHANGED <<dbVars, minted, turns, selects, thread_id, message_history, chat_threads,
                   thread_summaries, ghostVars>>
    /\ UNCHANGED fnVars

\* A title block without its test.
TitleAlwaysNeeded(existing_title) == TRUE

\* The test of the one-time title block on get_thread_summary's result.
TitleNeeded(existing_title) == existing_title = <<>> \/ existing_title = Placeholder

\* The stream ended: the assistant entry is recorded and the one-time title
\* block runs.  llmOut is what the title model does, dbOk whether the write
\* of save_thread_summary succeeds.
FinishTurn(s) ==
    /\ pc[s] = "end"
    /\ ~OutOfSteps(step[s])
    /\ LET tid == thread_id[s]
           logs == IF tools_used[s] # <<>> THEN Append(tool_logs[s], "- Done.") ELSE tool_logs[s]
           entry == Entry("assistant", Flatten(final_text[s]), tools_used[s], logs)
           existing_title == get_thread_summary(table, tid)
           messages == load_conversation(tid)
       IN  /\ message_history' = [message_history EXCEPT ![s] = Append(@, entry)]
           /\ IF TitleNeeded(existing_title) /\ messages # <<>>
              THEN \E llmOut \in TitleOutcomes, dbOk \in BOOLEAN, ts \in now..MaxClock :
                     LET g == GenerateSummary(messages, llmOut) IN
                     /\ titleRuns' = [titleRuns EXCEPT ![tid] = @ + 1]
                     /\ IF g.raised
                        THEN /\ error' = [error EXCEPT ![s] = "AttributeError"]
                             /\ UNCHANGED <<table, thread_summaries, now, lastSave>>
                        ELSE IF ~dbOk
                        THEN /\ error' = [error EXCEPT ![s] = "OperationalError"]
                             /\ UNCHANGED <<table, thread_summaries, now, lastSave>>
                        ELSE /\ table' = save_thread_summary(table, tid, g.title, ts)
                             /\ now' = ts
                             /\ lastSave' = [lastSave EXCEPT ![tid] =
                                   [title |-> g.title, updated_at |-> ts, saves |-> @.saves + 1]]
                             /\ thread_summaries' = [thread_summaries EXCEPT ![s][tid] = g.title]
                             /\ UNCHANGED error
              ELSE UNCHANGED <<table, thread_summaries, error, titleRuns, now, lastSave>>
    /\ ResetLocals(s)
    /\ pc' = [pc EXCEPT ![s] = "idle"]
    /\ run' = [run EXCEPT ![s] = "done"]
    /\ UNCHANGED <<store, nextId, minted, turns, selects, thread_id, chat_threads, ghostVars>>
    /\ UNCHANGED fnVars

Next ==
    \/ \E s \in Sessions : StartSession(s)
    \/ \E s \in Sessions : NewChat(s)
    \/ \E s \in Sessions, t \in ThreadIds : SelectThread(s, t)
    \/ \E s \in Sessions, text \in UserTexts : SendMessage(s, text)
    \/ \E s \in Sessions : ChatNodeOk(s)
    \/ \E s \in Sessions : ChatNodeFail(s)
    \/ \E s \in Sessions : ToolsStep(s)
    \/ \E s \in Sessions : RecursionLimitReached(s)
    \/ \E s \in Sessions : FinishTurn(s)

Spec == Init /\ [][Next]_vars

\* ------------------------------------------- generate_summary on its own
\* A user message of nine words, and one without a word.
LongText == <<"what", "is", "a", "chat", "topic", "is", "a", "new", "conversation", "?">>
TitleUserTexts == {<<"?">>, <<"what", "is", "?">>, LongText}

\* The messages a history handed to generate_summary can hold.
TitleMessages ==
    {HumanMessage(<<0, 0>>, t) : t \in TitleUserTexts}
       \cup {AIMessage(<<0, 0>>, Str(<<"a", "b">>), <<>>),
             AIMessage(<<0, 0>>, Blocks(<<"a", "b">>), <<>>),
             ToolMessage(<<0, 0>>, "tavily_search", ResultText)}
Histories == UNION {[1..n -> TitleMessages] : n \in 0..MaxHist}

\* generate_summary is about to be called with some history, and the title
\* model is about to raise or to answer some text.
InitTitle ==
    /\ InitMain
    /\ gsIn \in [messages : Histories, llm : TitleOutcomes]
    /\ gsOut = NoResult

\* The call of generate_summary(messages).
CallGenerateSummary ==
    /\ gsOut.state = "none"
    /\ LET g == GenerateSummary(gsIn.messages, gsIn.llm)
       IN  gsOut' = [state |-> "returned", raised |-> g.raised, title |-> g.title,
                     called |-> g.called]
    /\ UNCHANGED <<dbVars, minted, turns, selects, pc, thread_id, message_history, chat_threads,
                   thread_summaries, streamVars, run, error, ghostVars, gsIn>>

NextTitle == CallGenerateSummary

SpecTitle == InitTitle /\ [][NextTitle]_vars

\* ------------------------------------------------------------ observations
AIs(m) == SelectSeq(m, LAMBDA x : x.type = "ai")
Types(m) == [i \in 1..Len(m) |-> m[i].type]
Moved(s) == pc'[s] # pc[s] \/ step'[s] # step[s]
TitleOf(t) == get_thread_summary(table, t)
RowsOf(tbl, t) == {r \in tbl : r.thread_id = t}

\* A turn's messages: the user message, then agent messages and tool results.
TurnShaped(m) ==
    /\ m # <<>>
    /\ m[1].type = "human"
    /\ \A i \in 2..Len(m) : m[i].type \in {"ai", "tool"}

\* Every tool result of m has an agent message somewhere after it.
ToolsAnswered(m) ==
    \A i \in 1..Len(m) : m[i].type = "tool" => \E j \in (i + 1)..Len(m) : m[j].type = "ai"

\* C1: every change of a thread's persisted history is made by the turn in
\* flight on that thread and leaves it equal to the history at the start of
\* the turn followed by exactly the messages the turn has produced so far (the
\* user message first, then agent messages and tool results in production
\* order); the earlier history stays a prefix, so nothing is reordered,
\* removed, replaced or deduplicated.
C1_AppendOnly ==
    [][\A t \in ThreadIds :
         /\ IsPrefix(store[t], store'[t])
         /\ store'[t] # store[t] =>
              \E s \in Sessions :
                 /\ thread_id'[s] = t
                 /\ Busy(s)'
                 /\ store'[t] = turnBase'[s] \o turnMsgs'[s]
                 /\ IsPrefix(turnBase'[s], store[t])
                 /\ TurnShaped(turnMsgs'[s])]_vars

\* A second turn on a thread has produced a tool round and an answer.
C1_Witness ==
    \E s \in Sessions :
       /\ Busy(s)
       /\ turnBase[s] # <<>>
       /\ Len(turnMsgs[s]) >= 4
       /\ store[thread_id[s]] = turnBase[s] \o turnMsgs[s]

\* C2: a turn in which the model first requests exactly one tool call and then
\* answers without tool calls adds exactly UserMessage, AgentMessage with one
\* call, ToolResult named as the call, AgentMessage without calls, in this
\* order, and the engine is at Done (or has completed).
C2_ToolRoundTrip ==
    \A s \in Sessions :
       LET m == turnMsgs[s]
           a == AIs(m)
       IN  (Len(a) = 2 /\ Len(a[1].tool_calls) = 1 /\ a[2].tool_calls = <<>>) =>
              /\ Types(m) = <<"human", "ai", "tool", "ai">>
              /\ Len(m[2].tool_calls) = 1
              /\ m[3].name = m[2].tool_calls[1]
              /\ m[4].tool_calls = <<>>
              /\ \/ pc[s] = "end" /\ step[s] < RecursionLimit
                                  /\ store[thread_id[s]] = turnBase[s] \o m
                 \/ pc[s] = "idle" /\ run[s] = "done"

\* A one-tool turn has completed.
C2_Witness ==
    \E s \in Sessions :
       /\ pc[s] = "idle"
       /\ run[s] = "done"
       /\ Len(turnMsgs[s]) = 4
       /\ Len(AIs(turnMsgs[s])) = 2
       /\ Len(turnMsgs[s][2].tool_calls) = 1

\* The calls of the agent message at i are unresolved only when the turn
\* stopped there; otherwise they are resolved one to one, in request order,
\* before any other message.
ResolvedAt(h, i) ==
    LET c == h[i].tool_calls
        n == Len(c)
    IN  \/ i = Len(h)
        \/ h[i + 1].type = "human"
        \/ /\ i + n <= Len(h)
           /\ \A k \in 1..n : h[i + k].type = "tool" /\ h[i + k].name = c[k]
           /\ i + n < Len(h) => h[i + n + 1].type # "tool"

\* The tool result at j answers a call of the nearest agent message before it.
RequestedAt(h, j) ==
    \E i \in 1..(j - 1) :
       /\ h[i].type = "ai"
       /\ j - i <= Len(h[i].tool_calls)
       /\ h[j].name = h[i].tool_calls[j - i]
       /\ \A k \in (i + 1)..(j - 1) : h[k].type = "tool"

\* C3: in every persisted history every ToolResult answers a call, with the
\* same tool name, of the AgentMessage before it, and the calls of an
\* AgentMessage are resolved into one ToolResult each, in request order,
\* before the next AgentMessage.
C3_ToolCallsResolved ==
    \A t \in ThreadIds :
       LET h == store[t] IN
       \A i \in 1..Len(h) :
          /\ h[i].type = "tool" => RequestedAt(h, i)
          /\ (h[i].type = "ai" /\ h[i].tool_calls # <<>>) => ResolvedAt(h, i)

\* A history holds a two-call request, its two results and the next answer.
C3_Witness ==
    \E t \in ThreadIds :
       \E i \in 1..Len(store[t]) :
          /\ i + 3 <= Len(store[t])
          /\ store[t][i].type = "ai"
          /\ Len(store[t][i].tool_calls) = 2
          /\ store[t][i + 1].type = "tool"
          /\ store[t][i + 2].type = "tool"
          /\ store[t][i + 3].type = "ai"

\* C4 as claimed: once no turn is in flight on a thread, every ToolResult of
\* its history has an AgentMessage after it.
C4_Original ==
    \A t \in ThreadIds :
       (\A s \in Sessions : Busy(s) => thread_id[s] # t) => ToolsAnswered(store[t])

\* C4 amended: every ToolResult of a turn that reaches Done is followed by an
\* AgentMessage of that turn; a turn aborted by a failing model call leaves
\* no AgentMessage after the messages of its last completed round.
C4_Amended ==
    \A s \in Sessions :
       /\ (pc[s] = "end" \/ (pc[s] = "idle" /\ run[s] = "done")) =>
             ToolsAnswered(turnMsgs[s]) /\ Last(turnMsgs[s]).type = "ai"
       /\ (pc[s] = "idle" /\ run[s] = "ModelCallError") =>
             Last(turnMsgs[s]).type \in {"human", "tool"}

\* A turn with a tool round has reached Done.
C4_Witness ==
    \E s \in Sessions :
       /\ pc[s] = "idle"
       /\ run[s] = "done"
       /\ \E i \in 1..Len(turnMsgs[s]) : turnMsgs[s][i].type = "tool"

\* C5: a graph run never executes more than RecursionLimit super-steps: every
\* step of a turn in flight either ends the turn or counts one more
\* super-step, and a turn that has used them all can only fail with
\* GraphRecursionError, leaving the persisted histories as they are.
C5_CycleLimit ==
    [][\A s \in Sessions :
         (Busy(s) /\ Moved(s)) =>
            /\ step[s] <= RecursionLimit
            /\ step'[s] <= RecursionLimit
            /\ ~Busy(s)' \/ step'[s] = step[s] + 1
            /\ step[s] = RecursionLimit =>
                  /\ ~Busy(s)'
                  /\ run'[s] = "GraphRecursionError"
                  /\ error'[s] = "GraphRecursionError"
                  /\ store' = store]_vars

\* A turn whose every response requested a tool call failed on the limit.
C5_Witness ==
    \E s \in Sessions :
       /\ run[s] = "GraphRecursionError"
       /\ pc[s] = "idle"
       /\ AIs(turnMsgs[s]) # <<>>
       /\ \A i \in 1..Len(turnMsgs[s]) :
             turnMsgs[s][i].type = "ai" => turnMsgs[s][i].tool_calls # <<>>

\* C6: while a title other than the placeholder is stored for a thread, no
\* step calls generate_summary for it or changes its row.
C6_TitleOnce ==
    [][\A t \in ThreadIds :
         (TitleOf(t) # <<>> /\ TitleOf(t) # Placeholder) =>
            /\ titleRuns'[t] = titleRuns[t]
            /\ RowsOf(table', t) = RowsOf(table, t)]_vars

\* A second turn completed on a thread whose first turn stored a real title.
C6_Witness ==
    \E s \in Sessions :
       /\ pc[s] = "idle"
       /\ run[s] = "done"
       /\ error[s] = "none"
       /\ turnBase[s] # <<>>
       /\ Last(turnBase[s]).type = "ai"
       /\ Last(turnBase[s]).tool_calls = <<>>
       /\ Last(turnBase[s]).content.kind = "str"
       /\ TitleOf(thread_id[s]) \notin {<<>>, Placeholder}
       /\ titleRuns[thread_id[s]] = 1

\* C7: when the model call of a Respond step fails the turn ends with the
\* error raised to the session; no persisted history changes, the thread
\* holds the earlier history and the messages of the turn's completed
\* rounds, ending with the user message or a tool result, and no assistant
\* entry is recorded.
C7_ModelFailure ==
    [][\A s \in Sessions :
         (pc[s] = "chat_node" /\ step[s] < RecursionLimit /\ pc'[s] = "idle") =>
            /\ error'[s] = "ModelCallError"
            /\ run'[s] = "ModelCallError"
            /\ store' = store
            /\ store[thread_id[s]] = turnBase[s] \o turnMsgs[s]
            /\ Last(store'[thread_id[s]]).type \in {"human", "tool"}
            /\ message_history'[s] = message_history[s]]_vars

\* The model call failed after a tool round of a later turn of a thread.
C7_Witness ==
    \E s \in Sessions :
       /\ error[s] = "ModelCallError"
       /\ turnBase[s] # <<>>
       /\ Len(turnMsgs[s]) >= 3
       /\ store[thread_id[s]] = turnBase[s] \o turnMsgs[s]

\* C8: a tools step never ends the turn: it appends one ToolResult per
\* requested call, in request order, the result of a failed invocation
\* carrying the error text, and hands over to chat_node.
C8_ToolFailure ==
    [][\A s \in Sessions :
         (pc[s] = "tools" /\ step[s] < RecursionLimit /\ Moved(s)) =>
            LET t == thread_id[s]
                calls == Last(store[t]).tool_calls
                n == Len(calls)
                old == Len(store[t])
                done == Len(toolOutcomes[s])
            IN  /\ pc'[s] = "chat_node"
                /\ run'[s] = "running"
                /\ error'[s] = "none"
                /\ Len(store'[t]) = old + n
                /\ SubSeq(store'[t], 1, old) = store[t]
                /\ Len(toolOutcomes'[s]) = done + n
                /\ \A i \in 1..n :
                      /\ store'[t][old + i].type = "tool"
                      /\ store'[t][old + i].name = calls[i]
                      /\ toolOutcomes'[s][done + i] # "ok" =>
                            store'[t][old + i].content = Str(ErrorText)
                      /\ toolOutcomes'[s][done + i] = "ok" =>
                            store'[t][old + i].content = Str(ResultText)]_vars

\* The first of two calls failed and the turn went on to the next Respond.
C8_Witness ==
    \E s \in Sessions :
       /\ pc[s] = "chat_node"
       /\ toolOutcomes[s] = <<"invalid", "ok">>
       /\ Len(turnMsgs[s]) = 4
       /\ turnMsgs[s][3].content = Str(ErrorText)
       /\ turnMsgs[s][4].content = Str(ResultText)

\* C9 as claimed: a failing write of save_thread_summary raises no error to
\* the session.
C9_SummaryFailureSilent ==
    \A s \in Sessions : error[s] # "OperationalError"

\* C10 as claimed: no failure of the title pipeline leaves generate_summary.
C10_TitleFailureCaught ==
    \A s \in Sessions : error[s] # "AttributeError"

\* No send-message has ever been started on thread id t.
Untouched(t) == nextId[t] = 0

\* C11: whatever new-chat, load-thread and send-message operations have run,
\* a thread id on which no send-message was ever started (one minted by New
\* Chat included) loads as the empty history and is not listed by
\* retrieve_all_threads; while no send-message was started at all,
\* retrieve_all_threads is the empty set.
C11_UnseenThreadsEmpty ==
    /\ \A t \in ThreadIds :
          Untouched(t) => load_conversation(t) = <<>> /\ t \notin retrieve_all_threads
    /\ (\A t \in ThreadIds : Untouched(t)) => retrieve_all_threads = {}

\* A session has loaded a checkpointed, titled thread while a thread id it
\* minted with New Chat has never been sent to.
C11_Witness ==
    \E s \in Sessions, t \in ThreadIds :
       /\ pc[s] = "idle"
       /\ selects = 1
       /\ InSeq(t, chat_threads[s])
       /\ Untouched(t)
       /\ thread_id[s] # t
       /\ store[thread_id[s]] # <<>>
       /\ HasRow(table, thread_id[s])

\* C12: with turns on two thread ids interleaved in any order, a step of a
\* turn on one thread leaves the persisted history and the summary row of
\* every other thread as they were, and each thread's history holds exactly
\* the messages produced on that thread, in the order they were produced.
C12_ThreadIsolation ==
    [][/\ \A s \in Sessions :
             Moved(s) /\ (Busy(s) \/ Busy(s)') =>
                \A t \in ThreadIds \ {thread_id'[s]} :
                   /\ store'[t] = store[t]
                   /\ RowsOf(table', t) = RowsOf(table, t)
       /\ \A t \in ThreadIds :
             /\ Len(store'[t]) = nextId'[t]
             /\ \A i \in 1..Len(store'[t]) : store'[t][i].id = <<t, i>>]_vars

\* Two turns are in flight at once on different threads, each with a tool
\* round behind it.
C12_Witness ==
    \E s, o \in Sessions :
       /\ s # o
       /\ Busy(s) /\ Busy(o)
       /\ thread_id[s] # thread_id[o]
       /\ Len(turnMsgs[s]) >= 3
       /\ Len(turnMsgs[o]) >= 3

\* The tool names the display list d shows, entry after entry.
ShownTools(d) == Flatten([i \in 1..Len(d) |-> IF d[i].role = "assistant" THEN d[i].tools ELSE <<>>])
\* The names of the tool results of history h, in order.
ToolNamesOf(h) == LET r == SelectSeq(h, LAMBDA x : x.type = "tool") IN [i \in 1..Len(r) |-> r[i].name]
\* No turn is in flight on thread id t.
Quiet(t) == \A s \in Sessions : Busy(s) => thread_id[s] # t

\* C13: for every persisted history left by turns that completed or were
\* aborted, the display list load-thread builds shows the tool name of every
\* tool result in the tools list of exactly one assistant entry.
C13_NoToolDropped ==
    \A t \in ThreadIds :
       Quiet(t) => ShownTools(Rebuild(load_conversation(t), <<>>, <<>>)) = ToolNamesOf(store[t])

\* C14: a New Chat step makes a thread id no session knows and no store
\* holds the session's current one, lists it in the session with the title
\* "New Conversation", empties the visible history, and leaves the
\* checkpoints, the summary rows, the other sessions and the session's other
\* titles as they were.
C14_NewChatFrame ==
    [][\A s \in Sessions :
          pc[s] = "idle" /\ minted' # minted /\ thread_id'[s] # thread_id[s] =>
             LET tid == thread_id'[s] IN
             /\ \A o \in Sessions : ~InSeq(tid, chat_threads[o]) /\ thread_id[o] # tid
             /\ tid \notin retrieve_all_threads /\ ~HasRow(table, tid)
             /\ chat_threads'[s] = Append(chat_threads[s], tid)
             /\ thread_summaries'[s][tid] = Placeholder
             /\ \A t \in ThreadIds \ {tid} : thread_summaries'[s][t] = thread_summaries[s][t]
             /\ message_history'[s] = <<>>
             /\ store' = store /\ table' = table
             /\ \A o \in Sessions \ {s} :
                   /\ thread_id'[o] = thread_id[o]
                   /\ chat_threads'[o] = chat_threads[o]
                   /\ thread_summaries'[o] = thread_summaries[o]
                   /\ message_history'[o] = message_history[o]]_vars

\* New Chat was pressed after a titled conversation: the session is on a
\* fresh thread with nothing on screen.
C14_Witness ==
    \E s \in Sessions :
       /\ pc[s] = "idle"
       /\ minted = 2
       /\ \A o \in Sessions \ {s} : pc[o] = "off"
       /\ thread_id[s] = 2
       /\ message_history[s] = <<>>
       /\ thread_summaries[s][2] = Placeholder
       /\ store[1] # <<>>
       /\ thread_summaries[s][1] \notin {<<>>, Placeholder}

\* C15: a session that starts lists every thread id that has a checkpoint
\* and shows for it the title of its summary row, "New Conversation" without
\* a row.
C15_StartupRecovery ==
    [][\A s \in Sessions :
          pc[s] = "off" /\ pc'[s] = "idle" =>
             \A t \in retrieve_all_threads :
                /\ InSeq(t, chat_threads'[s])
                /\ thread_summaries'[s][t] =
                      IF HasRow(table, t) THEN get_thread_summary(table, t) ELSE Placeholder]_vars

\* A session that has run no turn lists an earlier session's thread under
\* its generated title.
C15_Witness ==
    \E s \in Sessions, t \in ThreadIds :
       /\ pc[s] = "idle"
       /\ run[s] = "none"
       /\ selects = 0
       /\ thread_id[s] # t
       /\ InSeq(t, chat_threads[s])
       /\ store[t] # <<>>
       /\ thread_summaries[s][t] \notin {<<>>, Placeholder}
       /\ thread_summaries[s][t] = get_thread_summary(table, t)

\* The table holds for each thread id exactly what the latest save left.
SummaryStoreOk(tbl, ls) ==
    \A t \in ThreadIds :
       /\ Cardinality(RowsOf(tbl, t)) <= 1
       /\ get_thread_summary(tbl, t) = ls[t].title
       /\ ls[t].saves = 0 => ~HasRow(tbl, t)
       /\ ls[t].saves > 0 =>
             RowsOf(tbl, t) = {[thread_id |-> t, title |-> ls[t].title,
                                updated_at |-> ls[t].updated_at]}

\* C16: after every step the summary table holds at most one row per thread
\* id, get_thread_summary gives the title of the latest save for the thread
\* (none before the first), the row carries the time of that save, and a save
\* for one thread id leaves the rows of the others as they were.
C16_Upsert ==
    [][/\ SummaryStoreOk(table', lastSave')
       /\ \A t \in ThreadIds :
             lastSave'[t] # lastSave[t] =>
                \A u \in ThreadIds \ {t} : RowsOf(table', u) = RowsOf(table, u)]_vars

\* A second save for a thread replaced the title and the time of the first.
C16_Witness ==
    \E t \in ThreadIds :
       /\ lastSave[t].saves = 2
       /\ lastSave[t].updated_at = 1
       /\ get_thread_summary(table, t) # Placeholder
       /\ Cardinality(table) = 1

\* C19: a thread id with a row in the summary table has a non-empty persisted
\* history.
C19_RowHasHistory ==
    \A t \in ThreadIds : HasRow(table, t) => store[t] # <<>>

\* One thread has a row and a history, another has a history of a turn that
\* is over and no row.
C19_Witness ==
    \E t, u \in ThreadIds :
       /\ HasRow(table, t)
       /\ store[t] # <<>>
       /\ store[u] # <<>>
       /\ ~HasRow(table, u)
       /\ Quiet(u)

\* The text the stream shows for one agent message of content c: the string,
\* or the rendering of each streamed piece of a list.
StreamedText(c) ==
    IF c.kind = "str" THEN c.text
    ELSE IF c.text = <<>> THEN <<"[", "]">>
    ELSE Flatten([i \in 1..Len(c.text) |-> <<"[", c.text[i], "]">>])
\* The text of all agent messages of m, in production order.
TurnText(m) == Flatten([i \in 1..Len(AIs(m)) |-> StreamedText(AIs(m)[i].content)])
\* The step with which session s ends a turn whose run completed.
TurnRecorded(s) == pc[s] = "end" /\ pc'[s] = "idle" /\ run'[s] = "done"

\* C18: while a turn runs, the text and the tool names the session has
\* received are those of the agent messages and tool results the turn has
\* produced so far, in production order and once each; the assistant entry
\* recorded at the end of the turn holds that text and that tool list.
C18_StreamOrder ==
    [][\A s \in Sessions :
          /\ Busy(s)' =>
                /\ Flatten(final_text'[s]) = TurnText(turnMsgs'[s])
                /\ tools_used'[s] = ToolNamesOf(turnMsgs'[s])
          /\ TurnRecorded(s) =>
                /\ Len(message_history'[s]) = Len(message_history[s]) + 1
                /\ Last(message_history'[s]).role = "assistant"
                /\ Last(message_history'[s]).content = TurnText(turnMsgs[s])
                /\ Last(message_history'[s]).tools = ToolNamesOf(turnMsgs[s])]_vars

\* A completed turn with two agent messages and a round of two tools is on
\* screen.
C18_Witness ==
    \E s \in Sessions :
       /\ pc[s] = "idle"
       /\ run[s] = "done"
       /\ Len(AIs(turnMsgs[s])) = 2
       /\ message_history[s] # <<>>
       /\ Last(message_history[s]).role = "assistant"
       /\ Last(message_history[s]).content = <<"a", "b">>
       /\ Last(message_history[s]).tools = <<"calculator", "tavily_search">>

\* Every turn of history h ended with an agent message that asks for no tool.
AllTurnsCompleted(h) ==
    \/ h = <<>>
    \/ /\ Last(h).type = "ai" /\ Last(h).tool_calls = <<>>
       /\ \A i \in 2..Len(h) :
             h[i].type = "human" => h[i - 1].type = "ai" /\ h[i - 1].tool_calls = <<>>
\* The contents of the entries of display list d, joined.
JoinedContent(d) == Flatten([i \in 1..Len(d) |-> d[i].content])
\* The entries a reload shows for the turn session s has just run: those
\* after the entries of the earlier history and the turn's user entry.
ReloadedTurn(s) ==
    LET all == Rebuild(store'[thread_id[s]], <<>>, <<>>)
        before == Rebuild(turnBase[s], <<>>, <<>>)
    IN  SubSeq(all, Len(before) + 2, Len(all))

\* C20: when a turn completes on a thread whose earlier turns all completed,
\* the assistant entries a reload of the thread builds for that turn have,
\* joined, the content and the tools list of the one assistant entry the live
\* send-message recorded.
C20_ReloadMatchesLive ==
    [][\A s \in Sessions :
          TurnRecorded(s) /\ AllTurnsCompleted(turnBase[s]) =>
             /\ JoinedContent(ReloadedTurn(s)) = Last(message_history'[s]).content
             /\ ShownTools(ReloadedTurn(s)) = Last(message_history'[s]).tools]_vars

\* The text of the first user message of a history that has one.
FirstUserText(msgs) ==
    LET i == CHOOSE k \in 1..Len(msgs) :
                msgs[k].type = "human" /\ \A j \in 1..(k - 1) : msgs[j].type # "human"
    IN  msgs[i].content.text
HasUser(msgs) == \E i \in 1..Len(msgs) : msgs[i].type = "human"
\* generate_summary has returned after the title model failed or answered
\* nothing usable.
FellBack ==
    /\ gsOut.state = "returned"
    /\ gsOut.called
    /\ gsIn.llm.raises \/ Sanitize(gsIn.llm.text) = <<>>
\* For the empty history the result is the placeholder and no model call.
EmptyHistoryCase ==
    gsOut.state = "returned" /\ gsIn.messages = <<>> =>
       gsOut.title = Placeholder /\ ~gsOut.called /\ ~gsOut.raised

\* C17 as stated: when the title model fails or its sanitized answer is
\* empty, the result is the Title-Case form of the first at most 8 word
\* tokens of the first user message, the placeholder when the history has no
\* user message; the empty history gives the placeholder without a model call.
C17_Original ==
    /\ EmptyHistoryCase
    /\ FellBack =>
          gsOut.title =
             IF HasUser(gsIn.messages)
             THEN ToTitleCase(Take(FindWords(FirstUserText(gsIn.messages)), MaxTitleWords))
             ELSE Placeholder

\* C17 amended: as above when the first user message has a word token; the
\* placeholder when the history has no user message or its first user message
\* has no word token.
C17_Amended ==
    /\ EmptyHistoryCase
    /\ FellBack =>
          gsOut.title =
             IF HasUser(gsIn.messages) /\ FindWords(FirstUserText(gsIn.messages)) # <<>>
             THEN ToTitleCase(Take(FindWords(FirstUserText(gsIn.messages)), MaxTitleWords))
             ELSE Placeholder

\* The fallback cut a first user message of nine words, found behind an agent
\* message, down to eight.
C17_Witness ==
    /\ FellBack
    /\ Len(gsIn.messages) = 2
    /\ gsIn.messages[1].type = "ai"
    /\ Len(FindWords(FirstUserText(gsIn.messages))) = 9
    /\ Len(gsOut.title) = MaxTitleWords
    /\ gsOut.title[1] = "What"

====
